---- MODULE Spec2Model ----
(***************************************************************************)
(* Model of the pganalyze collector daemon: main/run (orchestrator),       *)
(* establishConnection (SSL "prefer" fallback), collectAllDatabases        *)
(* (fan-out pass) and scheduler.Group.Schedule (cancellable timer loop).   *)
(***************************************************************************)
EXTENDS Integers, Sequences, FiniteSets, TLC

\* ---------------------------------------------------------------- bounds
MaxTime == 2        \* the wall clock runs over 0..MaxTime
Period == 2         \* the "stats" trigger fires at every multiple of Period
MaxReloads == 1     \* SIGHUPs the environment delivers
MaxTargets == 2     \* sections of the configuration file

MaxGen == MaxReloads + 1
Gens == 1..MaxGen

\* ------------------------------------------------- ConnectionEstablisher
SslNotEnabled == "pq: SSL is not enabled on the server"
ConnErrors == {"nil", SslNotEnabled, "other"}
SslModes == {"disable", "require", "prefer", "verify-full"}

\* What the server answers to sql.Open / db.Ping of the first and of the
\* second connectToDb call of one establishConnection.
ConnEnvs == [open1 : {"nil", "other"}, ping1 : ConnErrors,
             open2 : {"nil", "other"}, ping2 : ConnErrors]

connectToDb(sslmode, openErr, pingErr) ==
    IF openErr # "nil"
    THEN [sslmode |-> sslmode, db |-> FALSE, err |-> openErr]
    ELSE IF pingErr # "nil"
         THEN [sslmode |-> sslmode, db |-> FALSE, err |-> pingErr]
         ELSE [sslmode |-> sslmode, db |-> TRUE, err |-> "nil"]

\* Faulty variant: the retry taken on any error of a "prefer" target.
RetryPreferAnyError(err, requestedSslMode) ==
    requestedSslMode = "prefer"

\* The condition of the retry at line 159.
ShouldFallback(err, requestedSslMode) ==
    err = SslNotEnabled /\ requestedSslMode = "prefer"

establishConnection(requestedSslMode, env) ==
    LET first == IF requestedSslMode = "prefer" THEN "require"
                 ELSE requestedSslMode
        a1 == connectToDb(first, env.open1, env.ping1)
        a2 == connectToDb("disable", env.open2, env.ping2)
    IN  IF a1.err # "nil" /\ ShouldFallback(a1.err, requestedSslMode)
        THEN [attempts |-> <<a1, a2>>, connection |-> a2.db, err |-> a2.err]
        ELSE [attempts |-> <<a1>>, connection |-> a1.db, err |-> a1.err]

\* ---------------------------------------------------------- CronResolver
\* scheduler.DefaultConfig is compiled in; its text is not part of the
\* sources, so the model draws it once, at start, from these shapes.
SchedulerConfigs ==
    { [decodes |-> TRUE,  Intervals |-> {"5min"}, valid |-> {"5min"},
       Groups |-> [stats |-> "5min"]],
      [decodes |-> FALSE, Intervals |-> {}, valid |-> {},
       Groups |-> [stats |-> "5min"]],
      [decodes |-> TRUE,  Intervals |-> {}, valid |-> {},
       Groups |-> [stats |-> "5min"]],
      [decodes |-> TRUE,  Intervals |-> {"5min"}, valid |-> {},
       Groups |-> [stats |-> "5min"]] }

\* cronexpr.Parse(config.Intervals[name]): a missing name reads "" from the
\* map, which does not parse.
ParseInterval(data, name) == name \in data.Intervals /\ name \in data.valid

ReadSchedulerGroups(data) ==
    IF ~data.decodes THEN [groups |-> {}, err |-> TRUE]
    ELSE IF \E k \in DOMAIN data.Groups : ~ParseInterval(data, data.Groups[k])
         THEN [groups |-> {}, err |-> TRUE]
         ELSE [groups |-> DOMAIN data.Groups, err |-> FALSE]

\* ---------------------------------------------------------------- state
VARIABLES
    now,              \* wall clock (time.Now())
    testRun,          \* the -t / --dry-run flag
    DefaultConfig,    \* scheduler.DefaultConfig
    mpc,              \* main goroutine: position in main/run
    s,                \* main: the signal read from sigs ("none" before)
    sigs,             \* the signal channel, capacity 1
    notifying,        \* signal.Notify is in effect (until signal.Stop)
    hups,             \* SIGHUPs delivered so far
    gen,              \* number of run() calls so far: the current Generation
    loadErr,          \* which load step of the current run() failed
    databaseConfigs,  \* run: result of config.Read (sequence of sslmodes)
    ci,               \* run: index of the range loop over databaseConfigs
    established,      \* run: outcome of each establishConnection so far
    databases,        \* databases[g]: run g's local slice (target indices)
    stop,             \* main: the channel run returned (0 = nil, g = gen g's)
    wgMain,           \* main's sync.WaitGroup counter
    wgRun,            \* wgRun[g]: counter of run g's by-value copy of wg
    lpc,              \* lpc[g]: position of the goroutine of Schedule call g
    nextAt,           \* loop: group.interval.Next(time.Now())
    delay,            \* loop: delay
    fireAt,           \* loop: expiry of the time.After timer
    stopReq,          \* stopReq[g]: a sender is blocked on gen g's stop chan
    reqAt,            \* time at which main started its send (-1: none)
    tpc,              \* tpc[g]: position of the pass running over gen g
    tidx,             \* pass: index of the range loop over databases
    collected,        \* pass: collectStatistics calls made so far
    inflight,         \* inflight[g]: runner() invocations not yet returned
    passAtSig,        \* was a pass in flight when main read its signal
    sent,             \* sent[g]: sends started on gen g's stop channel
    openConns,        \* openConns[g]: *sql.DB handles run g opened, not closed
    aim,              \* aim[g]: the occurrence the loop is waiting for (0: none)
    lastFire,         \* lastFire[g]: occurrence of the last invocation (-1: none)
    oneShotRuns,      \* collectAllDatabases calls made by run itself (testRun)
    termDropped,      \* a terminate signal found sigs full behind a SIGHUP
    rsg,              \* one ReadSchedulerGroups call (SpecResolver)
    est               \* one establishConnection call (SpecEstablish)

vars == <<now, testRun, DefaultConfig, mpc, s, sigs, notifying, hups, gen,
          loadErr, databaseConfigs, ci, established, databases, stop,
          wgMain, wgRun, lpc, nextAt, delay, fireAt, stopReq, reqAt,
          tpc, tidx, collected, inflight, passAtSig, sent, openConns, aim,
          lastFire, oneShotRuns, termDropped, rsg, est>>

mainVars == <<mpc, s, gen, loadErr, databaseConfigs, ci, established, stop,
              wgMain, notifying>>
loopVars == <<lpc, nextAt, delay, fireAt>>
passVars == <<tpc, tidx, collected>>
flagVars == <<testRun, DefaultConfig, est, openConns>>
histVars == <<passAtSig, sent>>
schedHist == <<aim, lastFire>>
miscHist == <<oneShotRuns, termDropped, rsg>>

Signals == {"HUP", "TERM", "INT"}

\* The configuration files config.Read may find.
RECURSIVE SeqsUpTo(_, _)
SeqsUpTo(S, n) ==
    IF n = 0 THEN {<<>>}
    ELSE LET shorter == SeqsUpTo(S, n - 1)
         IN  shorter \cup {Append(q, x) : q \in shorter, x \in S}

ConfigFiles == SeqsUpTo({"prefer", "require"}, MaxTargets)

\* Faulty variant: the earliest occurrence at or after t.
NextNotStrict(t) == ((t + Period - 1) \div Period) * Period

\* cronexpr.Expression.Next: the earliest occurrence strictly after t.
Next_(t) == ((t \div Period) + 1) * Period

RsgIdle == [pc |-> "idle"]

EstIdle == [pc |-> "idle", mode |-> "disable",
            env |-> [open1 |-> "nil", ping1 |-> "nil",
                     open2 |-> "nil", ping2 |-> "nil"],
            attempts |-> <<>>, connection |-> FALSE, err |-> "nil"]

InitMain ==
    /\ mpc = "run"
    /\ stop = 0
    /\ lpc = [g \in Gens |-> "none"]
    /\ databases = [g \in Gens |-> <<>>]

InitRest ==
    /\ now = 0
    /\ s = "none"
    /\ sigs = <<>>
    /\ notifying = TRUE
    /\ hups = 0
    /\ gen = 1
    /\ loadErr = "none"
    /\ databaseConfigs = <<>>
    /\ ci = 0
    /\ established = <<>>
    /\ wgMain = 0
    /\ wgRun = [g \in Gens |-> 0]
    /\ nextAt = [g \in Gens |-> 0]
    /\ delay = [g \in Gens |-> 0]
    /\ fireAt = [g \in Gens |-> 0]
    /\ stopReq = [g \in Gens |-> FALSE]
    /\ reqAt = -1
    /\ tpc = [g \in Gens |-> "idle"]
    /\ tidx = [g \in Gens |-> 0]
    /\ collected = [g \in Gens |-> <<>>]
    /\ inflight = [g \in Gens |-> 0]
    /\ passAtSig = "none"
    /\ sent = [g \in Gens |-> 0]
    /\ openConns = [g \in Gens |-> 0]
    /\ aim = [g \in Gens |-> 0]
    /\ lastFire = [g \in Gens |-> -1]
    /\ oneShotRuns = 0
    /\ termDropped = FALSE

Init ==
    /\ testRun \in BOOLEAN
    /\ DefaultConfig \in SchedulerConfigs
    /\ est = EstIdle
    /\ rsg = RsgIdle
    /\ InitMain
    /\ InitRest

\* A collection pass has begun and not yet returned.
PassInFlight == \E g \in Gens : tpc[g] # "idle"

LoopAlive(g) == lpc[g] \notin {"none", "exited"}

\* When main returns the process is gone: its goroutines take no more steps.
Alive == mpc # "exited"

\* ------------------------------------------------------------ environment
Tick ==
    /\ now < MaxTime
    /\ now' = now + 1
    /\ UNCHANGED <<mainVars, loopVars, passVars, flagVars, histVars, sigs, hups,
                   databases, wgRun, stopReq, reqAt, inflight,
                   schedHist, miscHist>>

\* main has had a scheduler running: it waits for a signal, or handles one,
\* or is in the run() of a reload.
Running ==
    \/ mpc \in {"wait_sig", "send_stop", "stop_blocked", "after_stop"}
    \/ gen > 1 /\ mpc \in {"run", "read_config", "connect"}

\* os/signal delivers with a non-blocking send: a signal that finds the
\* channel full is dropped, which changes nothing in the program.
\* termDropped records a terminate signal dropped behind a pending SIGHUP
\* while main was Running.
Signal(sig) ==
    /\ notifying
    /\ mpc # "exited"
    /\ \/ /\ Len(sigs) < 1
          /\ sig = "HUP" => hups < MaxReloads
          /\ sigs' = Append(sigs, sig)
          /\ hups' = IF sig = "HUP" THEN hups + 1 ELSE hups
          /\ UNCHANGED termDropped
       \/ /\ Len(sigs) >= 1
          /\ sig # "HUP" /\ Head(sigs) = "HUP" /\ Running
          /\ termDropped' = TRUE
          /\ UNCHANGED <<sigs, hups>>
    /\ UNCHANGED <<now, mainVars, loopVars, passVars, flagVars, histVars,
                   databases, wgRun, stopReq, reqAt, inflight, schedHist,
                   oneShotRuns, rsg>>

\* -------------------------------------------------------------------- run
\* Faulty variant: the error only logged, run going on to read the
\* configuration file.
GroupsErrorIgnored == "read_config"

\* "return nil" on a ReadSchedulerGroups error: run is over.
GroupsErrorReturns == "check_stop"

RunReadSchedulerGroups ==
    /\ mpc = "run"
    /\ LET r == ReadSchedulerGroups(DefaultConfig)
       IN  IF r.err
           THEN /\ loadErr' = "groups"
                /\ stop' = 0
                /\ mpc' = GroupsErrorReturns
           ELSE /\ mpc' = "read_config"
                /\ UNCHANGED <<loadErr, stop>>
    /\ UNCHANGED <<now, s, sigs, notifying, hups, gen, databaseConfigs, ci,
                   established, databases, wgMain, wgRun, loopVars, stopReq,
                   reqAt, passVars, inflight, flagVars, histVars,
                   schedHist, miscHist>>

RunConfigRead ==
    /\ mpc = "read_config"
    /\ \/ /\ loadErr' = "config"
          /\ stop' = 0
          /\ mpc' = "check_stop"
          /\ UNCHANGED <<databaseConfigs, ci>>
       \/ \E file \in ConfigFiles :
             /\ databaseConfigs' = file
             /\ ci' = 1
             /\ mpc' = "connect"
             /\ UNCHANGED <<loadErr, stop>>
    /\ UNCHANGED <<now, s, sigs, notifying, hups, gen, established,
                   databases, wgMain, wgRun, loopVars, stopReq, reqAt,
                   passVars, inflight, flagVars, histVars,
                   schedHist, miscHist>>

\* Faulty variant: the database appended whatever establishConnection
\* returned.
AppendAlways(dbs, i, err) == Append(dbs, i)

\* Lines 186-190: only a connected database joins the slice.
AppendIfConnected(dbs, i, err) == IF err = "nil" THEN Append(dbs, i) ELSE dbs

RunEstablish ==
    /\ mpc = "connect"
    /\ ci <= Len(databaseConfigs)
    /\ \E env \in ConnEnvs :
          LET r == establishConnection(databaseConfigs[ci], env)
          IN  /\ databases' = [databases EXCEPT
                                 ![gen] = AppendIfConnected(@, ci, r.err)]
              /\ established' = Append(established, r.err = "nil")
              /\ openConns' = [openConns EXCEPT
                                 ![gen] = IF r.connection THEN @ + 1 ELSE @]
    /\ ci' = ci + 1
    /\ UNCHANGED <<now, mpc, s, sigs, notifying, hups, gen, loadErr,
                   databaseConfigs, stop, wgMain, wgRun, loopVars, stopReq,
                   reqAt, passVars, inflight, testRun, DefaultConfig, est,
                   histVars,
                   schedHist, miscHist>>

\* testRun: collectAllDatabases is called from run itself.
RunTestRun ==
    /\ mpc = "connect"
    /\ ci > Len(databaseConfigs)
    /\ testRun
    /\ mpc' = "test_run"
    /\ tpc' = [tpc EXCEPT ![gen] = "collect"]
    /\ tidx' = [tidx EXCEPT ![gen] = 1]
    /\ oneShotRuns' = oneShotRuns + 1
    /\ UNCHANGED <<now, s, sigs, notifying, hups, gen, loadErr,
                   databaseConfigs, ci, established, databases, stop, wgMain,
                   wgRun, loopVars, stopReq, reqAt, collected, inflight,
                   flagVars, histVars, schedHist, termDropped, rsg>>

\* Faulty variant: the test run handing back a channel as a scheduled run
\* does.
TestRunReturnsHandle == gen

\* "return nil" after the test run's collectAllDatabases.
TestRunReturns == 0

RunTestRunReturn ==
    /\ mpc = "test_run"
    /\ tpc[gen] = "collect"
    /\ tidx[gen] > Len(databases[gen])
    /\ tpc' = [tpc EXCEPT ![gen] = "idle"]
    /\ tidx' = [tidx EXCEPT ![gen] = 0]
    /\ collected' = [collected EXCEPT ![gen] = <<>>]
    /\ stop' = TestRunReturns
    /\ mpc' = "check_stop"
    /\ databaseConfigs' = <<>>
    /\ ci' = 0
    /\ UNCHANGED <<now, s, sigs, notifying, hups, gen, loadErr, established,
                   databases, wgMain, wgRun, loopVars, stopReq, reqAt,
                   inflight, flagVars, histVars,
                   schedHist, miscHist>>

\* Faulty variant: no scheduler for a Generation without targets.
RunScheduleNeedsTargets ==
    /\ mpc = "connect"
    /\ ci > Len(databaseConfigs)
    /\ ~testRun
    /\ lpc' = [lpc EXCEPT ![gen] =
                 IF databases[gen] = <<>> THEN @ ELSE "now1"]
    /\ wgRun' = [wgRun EXCEPT ![gen] = wgMain]
    /\ stop' = IF databases[gen] = <<>> THEN 0 ELSE gen
    /\ mpc' = "check_stop"
    /\ databaseConfigs' = <<>>
    /\ ci' = 0
    /\ UNCHANGED <<now, s, sigs, notifying, hups, gen, loadErr, established,
                   databases, wgMain, nextAt, delay, fireAt, stopReq, reqAt,
                   passVars, inflight, flagVars, histVars,
                   schedHist, miscHist>>

\* schedulerGroups["stats"].Schedule(...): make the stop channel, start the
\* goroutine, return the channel.
RunSchedule ==
    /\ mpc = "connect"
    /\ ci > Len(databaseConfigs)
    /\ ~testRun
    /\ lpc' = [lpc EXCEPT ![gen] = "now1"]
    /\ wgRun' = [wgRun EXCEPT ![gen] = wgMain]
    /\ stop' = gen
    /\ mpc' = "check_stop"
    /\ databaseConfigs' = <<>>
    /\ ci' = 0
    /\ UNCHANGED <<now, s, sigs, notifying, hups, gen, loadErr, established,
                   databases, wgMain, nextAt, delay, fireAt, stopReq, reqAt,
                   passVars, inflight, flagVars, histVars,
                   schedHist, miscHist>>

\* ------------------------------------------------- collectAllDatabases
CollectOutcomes == {"nil", "error"}

\* Faulty variant: the range loop left at the first error.
BreakOnError(i, err, n) == IF err = "nil" THEN i + 1 ELSE n + 1

\* After a collectStatistics error the range loop goes on to the next
\* database.
NextDatabase(i, err, n) == i + 1

collectStatistics(g) ==
    /\ Alive
    /\ tpc[g] = "collect"
    /\ tidx[g] <= Len(databases[g])
    /\ \E err \in CollectOutcomes :
          /\ collected' = [collected EXCEPT ![g] =
                 Append(@, [target |-> databases[g][tidx[g]], err |-> err])]
          /\ tidx' = [tidx EXCEPT ![g] =
                 NextDatabase(@, err, Len(databases[g]))]
    /\ UNCHANGED <<now, mainVars, sigs, hups, databases, wgRun, loopVars,
                   stopReq, reqAt, tpc, inflight, flagVars, histVars,
                   schedHist, miscHist>>

\* ------------------------------------------------- the scheduled runner
RunnerWgAdd(g) ==
    /\ Alive
    /\ tpc[g] = "wg_add"
    /\ wgRun' = [wgRun EXCEPT ![g] = @ + 1]
    /\ tpc' = [tpc EXCEPT ![g] = "collect"]
    /\ tidx' = [tidx EXCEPT ![g] = 1]
    /\ UNCHANGED <<now, mainVars, sigs, hups, databases, loopVars, stopReq,
                   reqAt, collected, inflight, flagVars, histVars,
                   schedHist, miscHist>>

\* collectAllDatabases returned; wg.Done(); runner returns into the loop.
RunnerWgDone(g) ==
    /\ Alive
    /\ lpc[g] = "runner"
    /\ tpc[g] = "collect"
    /\ tidx[g] > Len(databases[g])
    /\ wgRun' = [wgRun EXCEPT ![g] = @ - 1]
    /\ tpc' = [tpc EXCEPT ![g] = "idle"]
    /\ tidx' = [tidx EXCEPT ![g] = 0]
    /\ collected' = [collected EXCEPT ![g] = <<>>]
    /\ inflight' = [inflight EXCEPT ![g] = @ - 1]
    /\ lpc' = [lpc EXCEPT ![g] = "now1"]
    /\ UNCHANGED <<now, mainVars, sigs, hups, databases, nextAt, delay,
                   fireAt, stopReq, reqAt, flagVars, histVars,
                   schedHist, miscHist>>

\* ------------------------------------------------------- Group.Schedule
\* Faulty variant: the occurrence after the one served last, whatever the
\* time is now (a schedule that catches up).
NextAfterLastFire(g) ==
    IF lastFire[g] < 0 THEN Next_(now) ELSE lastFire[g] + Period

\* group.interval.Next(time.Now()): computed from the time it is now.
NextFire(g) == Next_(now)

LoopNow1(g) ==
    /\ Alive
    /\ lpc[g] = "now1"
    /\ nextAt' = [nextAt EXCEPT ![g] = NextFire(g)]
    /\ aim' = [aim EXCEPT ![g] = NextFire(g)]
    /\ lpc' = [lpc EXCEPT ![g] = "now2"]
    /\ UNCHANGED <<now, mainVars, sigs, hups, databases, wgRun, delay,
                   fireAt, stopReq, reqAt, passVars, inflight, flagVars,
                   histVars, lastFire, miscHist>>

LoopNow2(g) ==
    /\ Alive
    /\ lpc[g] = "now2"
    /\ delay' = [delay EXCEPT ![g] = nextAt[g] - now]
    /\ nextAt' = [nextAt EXCEPT ![g] = 0]
    /\ lpc' = [lpc EXCEPT ![g] = "timer"]
    /\ UNCHANGED <<now, mainVars, sigs, hups, databases, wgRun, fireAt,
                   stopReq, reqAt, passVars, inflight, flagVars, histVars,
                   schedHist, miscHist>>

\* select evaluates time.After(delay): the timer starts now.
LoopTimeAfter(g) ==
    /\ Alive
    /\ lpc[g] = "timer"
    /\ fireAt' = [fireAt EXCEPT ![g] = now + delay[g]]
    /\ delay' = [delay EXCEPT ![g] = 0]
    /\ lpc' = [lpc EXCEPT ![g] = "select"]
    /\ UNCHANGED <<now, mainVars, sigs, hups, databases, wgRun, nextAt,
                   stopReq, reqAt, passVars, inflight, flagVars, histVars,
                   schedHist, miscHist>>

\* Faulty variant: a timer that is ready before its delay has passed.
TimerAlwaysReady(g) == TRUE

\* Whether select may take "case <-time.After(delay)".
TimerReady(g) == now >= fireAt[g]

\* Faulty variant: "go runner()", the loop going on at once.
RunnerAsync == "now1"

\* Where the loop is after the timer case was chosen: inside runner().
RunnerSync == "runner"

LoopSelectTimer(g) ==
    /\ Alive
    /\ lpc[g] = "select"
    /\ TimerReady(g)
    /\ inflight[g] < 2
    /\ lpc' = [lpc EXCEPT ![g] = RunnerSync]
    /\ fireAt' = [fireAt EXCEPT ![g] = 0]
    /\ tpc' = [tpc EXCEPT ![g] = "wg_add"]
    /\ inflight' = [inflight EXCEPT ![g] = @ + 1]
    /\ lastFire' = [lastFire EXCEPT ![g] = aim[g]]
    /\ UNCHANGED <<now, mainVars, sigs, hups, databases, wgRun, nextAt,
                   delay, stopReq, reqAt, tidx, collected, flagVars, histVars,
                   aim, miscHist>>

\* Faulty variant: the stop case without its return.
StopKeepsLooping == "now1"

\* Where the loop is after the stop case was chosen.
StopReturns == "exited"

\* "case <-stop: return": the receive completes main's blocked send. The
\* goroutine is gone, and with it the closure and the databases slice it
\* captured; the handles in it stay open (nothing calls Close).
LoopSelectStop(g) ==
    /\ Alive
    /\ lpc[g] = "select"
    /\ stopReq[g]
    /\ stopReq' = [stopReq EXCEPT ![g] = FALSE]
    /\ reqAt' = -1
    /\ lpc' = [lpc EXCEPT ![g] = StopReturns]
    /\ fireAt' = [fireAt EXCEPT ![g] = 0]
    /\ databases' = [databases EXCEPT
                       ![g] = IF StopReturns = "exited" THEN <<>> ELSE @]
    /\ aim' = [aim EXCEPT ![g] = IF StopReturns = "exited" THEN 0 ELSE @]
    /\ lastFire' = [lastFire EXCEPT
                      ![g] = IF StopReturns = "exited" THEN -1 ELSE @]
    /\ mpc' = "after_stop"
    /\ UNCHANGED <<now, s, sigs, notifying, hups, gen, loadErr,
                   databaseConfigs, ci, established, stop, wgMain,
                   wgRun, nextAt, delay, passVars, inflight, flagVars,
                   histVars, miscHist>>

\* ------------------------------------------------------------------- main
MainCheckStop ==
    /\ mpc = "check_stop"
    /\ mpc' = IF stop = 0 THEN "exited" ELSE "wait_sig"
    /\ UNCHANGED <<now, s, sigs, notifying, hups, gen, loadErr,
                   databaseConfigs, ci, established, databases, stop, wgMain,
                   wgRun, loopVars, stopReq, reqAt, passVars, inflight,
                   flagVars, histVars,
                   schedHist, miscHist>>

MainRecvSignal ==
    /\ mpc = "wait_sig"
    /\ sigs # <<>>
    /\ s' = Head(sigs)
    /\ sigs' = Tail(sigs)
    /\ mpc' = "send_stop"
    /\ passAtSig' = IF PassInFlight THEN "inflight" ELSE "idle"
    /\ termDropped' = (termDropped /\ Head(sigs) = "HUP")
    /\ UNCHANGED <<now, notifying, hups, gen, loadErr, databaseConfigs, ci,
                   established, databases, stop, wgMain, wgRun, loopVars,
                   stopReq, reqAt, passVars, inflight, flagVars, sent,
                   schedHist, oneShotRuns, rsg>>

\* Faulty variant: a buffered stop channel, the send returning at once.
SendBuffered == "after_stop"

\* Where the sender is after starting its send: the channel of line 23 of
\* scheduler.go has no buffer.
SendUnbuffered == "stop_blocked"

\* "stop <- true": main blocks until the loop receives.
MainSendStop ==
    /\ mpc = "send_stop"
    /\ stopReq' = [stopReq EXCEPT ![stop] = TRUE]
    /\ sent' = [sent EXCEPT ![stop] = @ + 1]
    /\ reqAt' = now
    /\ mpc' = SendUnbuffered
    /\ UNCHANGED <<now, s, sigs, notifying, hups, gen, loadErr,
                   databaseConfigs, ci, established, databases, stop, wgMain,
                   wgRun, loopVars, passVars, inflight, flagVars, passAtSig,
                   schedHist, miscHist>>

MainReload ==
    /\ mpc = "after_stop"
    /\ s = "HUP"
    /\ gen < MaxGen
    /\ gen' = gen + 1
    /\ mpc' = "run"
    /\ loadErr' = "none"
    /\ established' = <<>>
    /\ passAtSig' = "none"
    /\ UNCHANGED <<now, s, sigs, notifying, hups, databaseConfigs, ci,
                   databases, stop, wgMain, wgRun, loopVars, stopReq, reqAt,
                   passVars, inflight, flagVars, sent,
                   schedHist, miscHist>>

MainSignalStop ==
    /\ mpc = "after_stop"
    /\ s # "HUP"
    /\ notifying' = FALSE
    /\ mpc' = "wg_wait"
    /\ UNCHANGED <<now, s, sigs, hups, gen, loadErr, databaseConfigs, ci,
                   established, databases, stop, wgMain, wgRun, loopVars,
                   stopReq, reqAt, passVars, inflight, flagVars, histVars,
                   schedHist, miscHist>>

MainWgWait ==
    /\ mpc = "wg_wait"
    /\ wgMain = 0
    /\ mpc' = "exited"
    /\ UNCHANGED <<now, s, sigs, notifying, hups, gen, loadErr,
                   databaseConfigs, ci, established, databases, stop, wgMain,
                   wgRun, loopVars, stopReq, reqAt, passVars, inflight,
                   flagVars, histVars,
                   schedHist, miscHist>>

Next ==
    \/ Tick
    \/ \E sig \in Signals : Signal(sig)
    \/ RunReadSchedulerGroups
    \/ RunConfigRead
    \/ RunEstablish
    \/ RunTestRun
    \/ RunTestRunReturn
    \/ RunSchedule
    \/ MainCheckStop
    \/ MainRecvSignal
    \/ MainSendStop
    \/ MainReload
    \/ MainSignalStop
    \/ MainWgWait
    \/ \E g \in Gens : collectStatistics(g)
    \/ \E g \in Gens : RunnerWgAdd(g)
    \/ \E g \in Gens : RunnerWgDone(g)
    \/ \E g \in Gens : LoopNow1(g)
    \/ \E g \in Gens : LoopNow2(g)
    \/ \E g \in Gens : LoopTimeAfter(g)
    \/ \E g \in Gens : LoopSelectTimer(g)
    \/ \E g \in Gens : LoopSelectStop(g)

Spec == Init /\ [][Next]_vars

\* ------------------------------------------- establishConnection alone
\* One call of establishConnection on every requested mode and every
\* answer of the server.
ValidConfig ==
    [decodes |-> TRUE, Intervals |-> {"5min"}, valid |-> {"5min"},
     Groups |-> [stats |-> "5min"]]

InitEstablish ==
    /\ testRun = FALSE
    /\ DefaultConfig = ValidConfig
    /\ est \in [pc : {"call"}, mode : SslModes, env : ConnEnvs,
                attempts : {<<>>}, connection : {FALSE}, err : {"nil"}]
    /\ rsg = RsgIdle
    /\ InitMain
    /\ InitRest

EstablishCall ==
    /\ est.pc = "call"
    /\ LET r == establishConnection(est.mode, est.env)
       IN  est' = [est EXCEPT !.pc = "returned", !.attempts = r.attempts,
                              !.connection = r.connection, !.err = r.err]
    /\ UNCHANGED <<now, testRun, DefaultConfig, mainVars, sigs, hups,
                   databases, wgRun, loopVars, stopReq, reqAt, passVars,
                   inflight, histVars, openConns,
                   schedHist, miscHist>>

NextEstablish == EstablishCall

SpecEstablish == InitEstablish /\ [][NextEstablish]_vars

\* ---------------------------------------------- Group.Schedule alone
\* A caller of Schedule that keeps the returned channel and sends on it up
\* to MaxSends times, each send after the one before it has returned.
MaxSends == 2

InitHandle ==
    /\ testRun = FALSE
    /\ DefaultConfig = ValidConfig
    /\ est = EstIdle
    /\ rsg = RsgIdle
    /\ mpc = "send_stop"
    /\ stop = 1
    /\ lpc = [g \in Gens |-> IF g = 1 THEN "now1" ELSE "none"]
    /\ databases \in {[g \in Gens |-> IF g = 1 THEN d ELSE <<>>] :
                         d \in {<<>>, <<1>>}}
    /\ InitRest

\* The clock while Schedule runs alone: long enough for three occurrences.
HandleHorizon == MaxTime + 2 * Period

TickHandle ==
    /\ now < HandleHorizon
    /\ now' = now + 1
    /\ UNCHANGED <<mainVars, loopVars, passVars, flagVars, histVars, sigs,
                   hups, databases, wgRun, stopReq, reqAt, inflight,
                   schedHist, miscHist>>

HandleSendAgain ==
    /\ mpc = "after_stop"
    /\ sent[stop] < MaxSends
    /\ mpc' = "send_stop"
    /\ UNCHANGED <<now, s, sigs, notifying, hups, gen, loadErr,
                   databaseConfigs, ci, established, databases, stop, wgMain,
                   wgRun, loopVars, stopReq, reqAt, passVars, inflight,
                   flagVars, histVars,
                   schedHist, miscHist>>

NextHandle ==
    \/ TickHandle
    \/ MainSendStop
    \/ HandleSendAgain
    \/ \E g \in Gens : collectStatistics(g)
    \/ \E g \in Gens : RunnerWgAdd(g)
    \/ \E g \in Gens : RunnerWgDone(g)
    \/ \E g \in Gens : LoopNow1(g)
    \/ \E g \in Gens : LoopNow2(g)
    \/ \E g \in Gens : LoopTimeAfter(g)
    \/ \E g \in Gens : LoopSelectTimer(g)
    \/ \E g \in Gens : LoopSelectStop(g)

SpecHandle == InitHandle /\ [][NextHandle]_vars

\* --------------------------------------------- ReadSchedulerGroups alone
\* One call of ReadSchedulerGroups, step by step, on every configuration
\* text of up to two groups and two intervals.
GroupNames == {"stats", "logs"}

IntervalNames == {"5min", "1h"}

ResolverInputs ==
    { [decodes |-> d, Intervals |-> I, valid |-> v, Groups |-> G] :
          d \in BOOLEAN,
          I \in SUBSET IntervalNames,
          v \in SUBSET IntervalNames,
          G \in UNION {[D -> IntervalNames] : D \in SUBSET GroupNames} }

InitResolver ==
    /\ testRun = FALSE
    /\ DefaultConfig = ValidConfig
    /\ est = EstIdle
    /\ rsg \in {[pc |-> "decode", data |-> d, todo |-> {}, resolved |-> {},
                 groups |-> {}, err |-> FALSE] :
                    d \in {x \in ResolverInputs : x.valid \subseteq x.Intervals}}
    /\ InitMain
    /\ InitRest

\* toml.Decode; on an error the function returns at once.
RsgDecode ==
    /\ rsg.pc = "decode"
    /\ rsg' = IF rsg.data.decodes
              THEN [rsg EXCEPT !.pc = "range",
                               !.todo = DOMAIN rsg.data.Groups]
              ELSE [rsg EXCEPT !.pc = "returned", !.err = TRUE]
    /\ UNCHANGED <<now, testRun, DefaultConfig, mainVars, sigs, hups,
                   databases, wgRun, loopVars, stopReq, reqAt, passVars,
                   inflight, histVars, openConns, est, schedHist,
                   oneShotRuns, termDropped>>

\* Faulty variant: the groups resolved so far are handed back with the error.
PartialReturn(resolved) == resolved

\* The bare return inside the range loop: the named result groups has not
\* been assigned yet, so it is nil.
ErrorReturn(resolved) == {}

\* One iteration of the range over config.Groups, in map order (any order).
RsgParse(k) ==
    /\ rsg.pc = "range"
    /\ k \in rsg.todo
    /\ rsg' = IF ParseInterval(rsg.data, rsg.data.Groups[k])
              THEN [rsg EXCEPT !.todo = @ \ {k},
                               !.resolved = @ \cup {k}]
              ELSE [rsg EXCEPT !.pc = "returned", !.err = TRUE,
                               !.groups = ErrorReturn(rsg.resolved)]
    /\ UNCHANGED <<now, testRun, DefaultConfig, mainVars, sigs, hups,
                   databases, wgRun, loopVars, stopReq, reqAt, passVars,
                   inflight, histVars, openConns, est, schedHist,
                   oneShotRuns, termDropped>>

\* groups = config.Groups; return.
RsgReturn ==
    /\ rsg.pc = "range"
    /\ rsg.todo = {}
    /\ rsg' = [rsg EXCEPT !.pc = "returned",
                          !.groups = DOMAIN rsg.data.Groups]
    /\ UNCHANGED <<now, testRun, DefaultConfig, mainVars, sigs, hups,
                   databases, wgRun, loopVars, stopReq, reqAt, passVars,
                   inflight, histVars, openConns, est, schedHist,
                   oneShotRuns, termDropped>>

NextResolver ==
    \/ RsgDecode
    \/ \E k \in GroupNames : RsgParse(k)
    \/ RsgReturn

SpecResolver == InitResolver /\ [][NextResolver]_vars

\* ======================================================== properties

Loading == mpc \in {"run", "read_config", "connect", "test_run"}

\* C1: Generations never overlap. At most one scheduler loop is alive, at
\* most one Generation has a pass executing, and while run() loads a
\* Generation (scheduler groups, configuration, connections) no loop of an
\* earlier Generation is alive and none of its passes is executing.
C1_NoOverlappingGenerations ==
    /\ Cardinality({g \in Gens : LoopAlive(g)}) <= 1
    /\ Cardinality({g \in Gens : tpc[g] # "idle"}) <= 1
    /\ \A g \in Gens : g < gen => ~LoopAlive(g) /\ tpc[g] = "idle"
    /\ Loading => \A g \in Gens : ~LoopAlive(g)

\* A reload has retired Generation 1 and a pass of Generation 2 is running.
C1_Witness ==
    /\ gen = 2
    /\ lpc[1] = "exited"
    /\ lpc[2] = "runner"
    /\ tpc[2] = "collect"

\* C2 (as stated): the process does not exit while a pass is in flight, and
\* a terminate signal read while no pass is in flight never makes main wait
\* for a pass.
C2_GracefulDrainAsStated ==
    /\ mpc = "exited" => ~PassInFlight
    /\ (s \in {"TERM", "INT"} /\ passAtSig = "idle" /\ mpc = "stop_blocked")
          => ~PassInFlight

\* C2 (amended): the process does not exit while a pass is in flight; once
\* the loop has accepted the cancellation the rest of the shutdown path
\* does not wait: no pass is in flight and wg.Wait() finds its counter at 0.
C2_GracefulDrain ==
    /\ mpc = "exited" => ~PassInFlight
    /\ mpc \in {"after_stop", "wg_wait"} => ~PassInFlight /\ wgMain = 0

\* The process has stopped after a terminate signal that main read while a
\* pass was in flight.
C2_Witness ==
    /\ mpc = "exited"
    /\ s = "TERM"
    /\ passAtSig = "inflight"

\* C3 (as stated): after a cancellation requested strictly before the fire
\* time the task is not invoked, and when request and timer are both ready
\* the cancellation wins.
C3_CancellationWinsAsStated ==
    [][\A g \in Gens :
          (lpc[g] = "select" /\ stopReq[g]
             /\ (reqAt < fireAt[g] \/ TimerReady(g)))
          => lpc'[g] # "runner"]_vars

\* C3 (amended): with a cancellation request pending, select invokes the
\* task only if the timer had expired when it chose; an unexpired timer
\* never beats the request.
C3_CancellationRace ==
    [][\A g \in Gens :
          (lpc[g] = "select" /\ stopReq[g] /\ lpc'[g] # "select")
          => (lpc'[g] = "exited" \/ now >= fireAt[g])]_vars

\* The request was made strictly before the fire time and the loop sits in
\* select with the timer still running.
C3_Witness ==
    \E g \in Gens :
       /\ lpc[g] = "select"
       /\ stopReq[g]
       /\ reqAt >= 0
       /\ reqAt < fireAt[g]
       /\ now < fireAt[g]

\* C4: after a failed load the Orchestrator does not exit on its own.
C4_StaysInInit == loadErr # "none" => mpc # "exited"

\* C5: the counter wg.Wait() observes equals the number of scheduled passes
\* that have begun and not yet completed.
C5_SameCounter ==
    wgMain = Cardinality({g \in Gens : lpc[g] = "runner" /\ tpc[g] = "collect"})

\* C6: at most one execution of the task is in flight per handle, and the
\* loop is inside runner() for as long as that execution lasts.
C6_SingleInvocation ==
    \A g \in Gens :
       /\ inflight[g] <= 1
       /\ lpc[g] \in {"now1", "now2", "timer", "select", "exited"}
             => inflight[g] = 0 /\ tpc[g] = "idle"
       /\ (~testRun /\ tpc[g] # "idle") => lpc[g] = "runner" /\ inflight[g] = 1

\* A pass still running when the clock has reached the end of its range.
C6_Witness ==
    \E g \in Gens :
       /\ lpc[g] = "runner"
       /\ tpc[g] = "collect"
       /\ Len(collected[g]) >= 1
       /\ now = MaxTime

\* C7 (as stated): a signal sent to a cancelled handle returns to its
\* sender and starts no task. A send pending on the channel of a loop that
\* has exited can never complete: nothing receives from that channel again.
C7_IdempotentAsStated ==
    \A g \in Gens :
       /\ ~(stopReq[g] /\ lpc[g] = "exited")
       /\ lpc[g] = "exited" => tpc[g] = "idle"

\* C7 (amended): a second signal on a cancelled handle has no effect on the
\* loop and starts no task, but it does not return: the sender stays
\* blocked in its send.
C7_SecondSignalBlocks ==
    [][\A g \in Gens :
          (sent[g] >= 2 /\ stopReq[g])
          => /\ stopReq'[g]
             /\ mpc' = "stop_blocked"
             /\ lpc'[g] = "exited"
             /\ tpc'[g] = "idle"
             /\ inflight'[g] = 0]_vars

\* The handle was cancelled, signalled again, and time has passed since.
C7_Witness ==
    /\ sent[1] = 2
    /\ stopReq[1]
    /\ lpc[1] = "exited"
    /\ mpc = "stop_blocked"
    /\ now > reqAt

\* First error of a call, read off the server's answers.
FirstErr(env) == IF env.open1 # "nil" THEN env.open1 ELSE env.ping1

SecondErr(env) == IF env.open2 # "nil" THEN env.open2 ELSE env.ping2

\* C8: "prefer" is first tried as "require"; there is a second attempt iff
\* the mode is "prefer" and the first failed with the SSL-not-enabled
\* error, and it uses "disable"; otherwise there is one attempt, with the
\* mode as requested, and its error is what is returned.
C8_FallbackPolicy ==
    est.pc = "returned" =>
       LET a == est.attempts
       IN  /\ Len(a) \in {1, 2}
           /\ a[1].sslmode = IF est.mode = "prefer" THEN "require"
                             ELSE est.mode
           /\ a[1].err = FirstErr(est.env)
           /\ Len(a) = 2 <=> (est.mode = "prefer"
                                /\ FirstErr(est.env) = SslNotEnabled)
           /\ Len(a) = 2 => /\ a[2].sslmode = "disable"
                            /\ a[2].err = SecondErr(est.env)
                            /\ est.err = SecondErr(est.env)
           /\ Len(a) = 1 => est.err = FirstErr(est.env)
           /\ est.connection <=> est.err = "nil"

\* A "prefer" target whose server has no SSL, connected on the retry.
C8_Witness ==
    /\ est.pc = "returned"
    /\ est.mode = "prefer"
    /\ Len(est.attempts) = 2
    /\ est.attempts[1].err = SslNotEnabled
    /\ est.err = "nil"

\* The indices i <= n with ok[i], in order.
RECURSIVE Connected(_, _)
Connected(ok, n) ==
    IF n = 0 THEN <<>>
    ELSE IF ok[n] THEN Append(Connected(ok, n - 1), n)
         ELSE Connected(ok, n - 1)

Targets(coll) == [i \in 1..Len(coll) |-> coll[i].target]

\* C9: every configured target is attempted, the Generation's databases
\* are exactly the targets whose establishConnection succeeded, in
\* configuration order, and a completed pass has collected exactly those.
C9_MultiTargetIsolation ==
    /\ mpc = "connect" => Len(established) = ci - 1
    /\ (mpc = "connect" /\ ci > Len(databaseConfigs))
          => Len(established) = Len(databaseConfigs)
    /\ (Loading \/ LoopAlive(gen))
          => databases[gen] = Connected(established, Len(established))
    /\ (tpc[gen] = "collect" /\ tidx[gen] > Len(databases[gen]))
          => Targets(collected[gen])
                = Connected(established, Len(established))

\* Of two targets the first failed to connect; the pass over the
\* Generation has collected the second only.
C9_Witness ==
    /\ established = <<FALSE, TRUE>>
    /\ tpc[gen] = "collect"
    /\ tidx[gen] > Len(databases[gen])
    /\ Targets(collected[gen]) = <<2>>

\* C10: a pass calls collectStatistics once for every database of its
\* Generation, in order, whatever the earlier calls returned.
C10_FanOutIsolation ==
    \A g \in Gens :
       tpc[g] = "collect" =>
          /\ tidx[g] <= Len(databases[g]) + 1
          /\ Len(collected[g]) = tidx[g] - 1
          /\ \A i \in 1..Len(collected[g]) :
                collected[g][i].target = databases[g][i]

\* A completed pass over two targets whose first collection failed.
C10_Witness ==
    \E g \in Gens :
       /\ tpc[g] = "collect"
       /\ Len(databases[g]) = 2
       /\ tidx[g] = 3
       /\ collected[g][1].err = "error"
       /\ collected[g][2].err = "nil"

\* ------------------------------------------------ C11 (Group.Schedule)
\* The loop starts an invocation of the task / works out its next occurrence.
Fired(g) == inflight'[g] = inflight[g] + 1

Recomputed(g) == lpc[g] = "now1" /\ lpc'[g] = "now2"

\* C11 as stated: every occurrence of the trigger gets its invocation, the
\* loop never passing from one occurrence to a later one than the next.
C11_NoMissedFireAsStated ==
    [][\A g \in Gens :
          (Recomputed(g) /\ lastFire[g] >= 0)
              => aim'[g] = lastFire[g] + Period]_vars

\* C11: an invocation never starts before the occurrence it is for, never
\* for an occurrence already served, and never while another invocation of
\* the handle runs; and when the loop is back working out its next
\* occurrence before the occurrence after the one served last, that one is
\* its next: no occurrence is skipped unless time has passed it meanwhile.
C11_FiresPerBoundary ==
    [][\A g \in Gens :
          /\ Fired(g) =>
                /\ now >= aim[g]
                /\ aim[g] > lastFire[g]
                /\ inflight[g] = 0
          /\ (Recomputed(g) /\ lastFire[g] >= 0
                 /\ now < lastFire[g] + Period)
                => aim'[g] = lastFire[g] + Period]_vars

\* The first occurrence was served, the task returned, and the timer for
\* the occurrence right after it is ready.
C11_Witness ==
    \E g \in Gens :
        /\ lpc[g] = "select"
        /\ lastFire[g] = Period
        /\ aim[g] = 2 * Period
        /\ now >= fireAt[g]
        /\ ~stopReq[g]

\* --------------------------------------------------- C12 (run, main)
\* C12: no connection opened for a retired Generation, one that a reload
\* has replaced, is still open.
C12_RetiredTargetsClosed ==
    \A g \in Gens : g < gen => openConns[g] = 0

\* ---------------------------------------- C13 (ReadSchedulerGroups)
BadConfig(d) ==
    \/ ~d.decodes
    \/ \E k \in DOMAIN d.Groups :
          d.Groups[k] \notin d.Intervals \/ d.Groups[k] \notin d.valid

\* C13: a configuration that does not decode, or in which some group names
\* an interval that is absent or does not parse, gives an error and no
\* group mapping at all; without an error every group of the configuration
\* is returned and each carries its parsed expression.
C13_FailFast ==
    rsg.pc = "returned" =>
        /\ BadConfig(rsg.data) <=> rsg.err
        /\ rsg.err => rsg.groups = {}
        /\ ~rsg.err =>
              /\ rsg.groups = DOMAIN rsg.data.Groups
              /\ rsg.groups \subseteq rsg.resolved
        /\ [groups |-> rsg.groups, err |-> rsg.err]
              = ReadSchedulerGroups(rsg.data)

\* The call failed on one group after it had resolved another.
C13_Witness ==
    /\ rsg.pc = "returned"
    /\ rsg.err
    /\ rsg.resolved # {}
    /\ rsg.groups = {}

\* --------------------------------------------------- C14 (run, main)
\* main is between "run returned" and its own return.
Scheduled == mpc \in {"wait_sig", "send_stop", "stop_blocked", "after_stop",
                      "wg_wait"}

\* The steps of main's own goroutine in a test run.
OneShotStep ==
    \/ RunReadSchedulerGroups
    \/ RunConfigRead
    \/ RunEstablish
    \/ RunTestRun
    \/ collectStatistics(gen)
    \/ RunTestRunReturn
    \/ MainCheckStop

\* C14: with testRun set no scheduler loop is ever started and main never
\* waits for signals; the only pass is the one run makes itself, at most
\* one, made while run is still executing, and made once run has returned
\* after a successful load; run then returns no channel, on which main
\* returns; until then main always has a next step to take.
C14_OneShot ==
    testRun =>
        /\ \A g \in Gens : lpc[g] = "none" /\ inflight[g] = 0
        /\ ~Scheduled
        /\ gen = 1
        /\ oneShotRuns <= 1
        /\ PassInFlight => (mpc = "test_run" /\ oneShotRuns = 1)
        /\ (mpc \in {"check_stop", "exited"} /\ loadErr = "none")
              => (oneShotRuns = 1 /\ stop = 0)
        /\ (mpc \in {"check_stop", "exited"} /\ loadErr # "none")
              => oneShotRuns = 0
        /\ mpc # "exited" => ENABLED OneShotStep

\* A test run over a connected target finished and the process is gone.
C14_Witness ==
    /\ testRun
    /\ mpc = "exited"
    /\ loadErr = "none"
    /\ oneShotRuns = 1
    /\ databases[1] # <<>>

\* ------------------------------------------- C15 (Group.Schedule, main)
\* The loop's select takes "case <-stop".
TookStopCase(g) == lpc[g] = "select" /\ stopReq[g] /\ ~stopReq'[g]

\* C15: the loop that takes the stop case exits without invoking the task,
\* an exited loop stays exited and never invokes the task again, and once
\* the cancellation main sends on a terminate signal has been received no
\* pass starts and no loop is alive.
C15_NoInvocationAfterCancel ==
    [][/\ \A g \in Gens :
             /\ TookStopCase(g) =>
                   (lpc'[g] = "exited" /\ tpc'[g] = "idle" /\ ~Fired(g))
             /\ lpc[g] = "exited" =>
                   (lpc'[g] = "exited" /\ tpc'[g] = "idle" /\ ~Fired(g))
       /\ (mpc' \in {"after_stop", "wg_wait", "exited"} /\ s' \in {"TERM", "INT"})
             => \A g \in Gens : ~LoopAlive(g)' /\ tpc'[g] = "idle"]_vars

\* The loop has taken the stop case on a terminate signal, and the clock has
\* since reached the occurrence the loop was waiting for.
C15_Witness ==
    \E g \in Gens :
        /\ lpc[g] = "exited"
        /\ sent[g] = 1
        /\ s = "TERM"
        /\ mpc = "wg_wait"
        /\ reqAt = -1
        /\ now >= Period

\* ------------------------------------------- C16 (Group.Schedule, main)
\* C16 as stated: main's cancellation request never has to wait for an
\* invocation of the task that is executing on the handle.
C16_NonBlockingAsStated ==
    ~(mpc = "stop_blocked" /\ lpc[stop] = "runner")

\* C16: a cancellation request that has been made and not yet received
\* keeps its sender blocked in the send; the send completes only by the
\* loop's select taking the stop case, and so at a moment when no invocation
\* of the task is executing on that handle.
C16_RequestBlocks ==
    [][/\ \A g \in Gens : stopReq'[g] => (mpc' = "stop_blocked" /\ stop' = g)
       /\ (mpc = "stop_blocked" /\ mpc' # "stop_blocked")
             => (TookStopCase(stop) /\ tpc[stop] = "idle")]_vars

\* main is blocked in its send while a pass of the handle's task still has
\* a database to collect from.
C16_Witness ==
    /\ mpc = "stop_blocked"
    /\ stopReq[stop]
    /\ lpc[stop] = "runner"
    /\ tpc[stop] = "collect"
    /\ tidx[stop] <= Len(databases[stop])

\* ------------------------------------------------ C17 (Group.Schedule)
\* C17 as stated: when the loop starts its wait, the occurrence it waits for
\* is strictly in the future.
C17_WaitInFutureAsStated ==
    [][\A g \in Gens :
          (lpc[g] = "timer" /\ lpc'[g] = "select") => aim[g] > now]_vars

\* C17: whenever the loop works out its next occurrence, it is the trigger's
\* earliest occurrence strictly after the time it is then, hence after the
\* return of the invocation before it and after the occurrence served last,
\* and at most one period away: occurrences that passed meanwhile are left
\* out, and an invocation is never started for an occurrence other than the
\* one so worked out.
C17_RecomputedFromNow ==
    [][\A g \in Gens :
          /\ Recomputed(g) =>
                /\ aim'[g] = Next_(now)
                /\ aim'[g] > now
                /\ aim'[g] - now <= Period
                /\ aim'[g] > lastFire[g]
                /\ nextAt'[g] = aim'[g]
          /\ Fired(g) => (lastFire'[g] = aim[g] /\ aim[g] <= now)
          /\ (lpc[g] = "runner" /\ lpc'[g] # "runner") => lpc'[g] = "now1"]_vars

\* The invocation for one occurrence ran past the next one, and the loop
\* now waits for the occurrence after that.
C17_Witness ==
    \E g \in Gens :
        /\ lpc[g] = "select"
        /\ lastFire[g] >= Period
        /\ aim[g] = lastFire[g] + 2 * Period
        /\ fireAt[g] > now

\* ---------------------------------------------------------- C18 (run)
\* C18: in continuous mode a run whose loads succeeded has started the
\* scheduler loop and returned its channel when it returns, whatever the
\* number of connected targets, so that main goes on to wait for signals;
\* and a pass over an empty Generation has nothing left to collect as soon
\* as it has started: it can only return.
C18_ArmedWhateverConnected ==
    /\ (~testRun /\ loadErr = "none" /\ mpc \in {"check_stop", "wait_sig"})
          => (stop = gen /\ LoopAlive(gen))
    /\ \A g \in Gens :
          (lpc[g] = "runner" /\ tpc[g] = "collect" /\ databases[g] = <<>>)
              => (collected[g] = <<>> /\ ENABLED RunnerWgDone(g))

\* main waits for signals with no target connected, every Establish having
\* failed, while a scheduled pass over the empty Generation is running.
C18_Witness ==
    /\ mpc = "wait_sig"
    /\ Len(established) = MaxTargets
    /\ databases[gen] = <<>>
    /\ lpc[gen] = "runner"
    /\ tpc[gen] = "collect"

\* ------------------------------------------- C19 (main, Group.Schedule)
\* C19: no terminate signal sent to the running process is lost: main never
\* waits for a signal, with none pending, after a terminate signal was sent
\* to it that it has not received and will not receive.
C19_NoTerminateLost ==
    ~(termDropped /\ mpc = "wait_sig" /\ sigs = <<>>)

\* ---------------------------------------------------------- C20 (run)
\* What a run() that has not got past its two loads has not done: no
\* connection attempt, no open handle, no target, no loop, no pass.
Untouched(g) ==
    /\ established = <<>>
    /\ openConns[g] = 0
    /\ databases[g] = <<>>
    /\ lpc[g] = "none"
    /\ tpc[g] = "idle"
    /\ inflight[g] = 0
    /\ aim[g] = 0

\* C20: a run whose scheduler-group resolution or configuration reading
\* failed has made no connection attempt, run no pass and started no loop,
\* and returns no channel; the same holds while the loads are still going
\* on; and while run is connecting its scheduler loop does not exist yet.
C20_FailedLoadNoEffects ==
    /\ loadErr # "none" => (Untouched(gen) /\ stop = 0)
    /\ mpc \in {"run", "read_config"} => Untouched(gen)
    /\ mpc = "connect" =>
          (loadErr = "none" /\ lpc[gen] = "none" /\ tpc[gen] = "idle")
    /\ LoopAlive(gen) => (~Loading /\ loadErr = "none")

\* The configuration could not be read on a reload, after a first Generation
\* that had a connected target, and run has returned.
C20_Witness ==
    /\ gen = 2
    /\ loadErr = "config"
    /\ mpc = "check_stop"
    /\ openConns[1] > 0

==============================================================================
